---- MODULE Spec2Model ----
(***************************************************************************)
(* Model of the unified blog client (blog-client/src/lib.rs) and of the    *)
(* two transport sub-clients it dispatches to.  The facade keeps a         *)
(* canonical session token behind one tokio Mutex and the active           *)
(* sub-client (which mirrors the token) behind another.  Both mutexes are  *)
(* FIFO: a task that calls lock() is appended to the queue of the mutex    *)
(* and owns the mutex while it is the head of that queue.                  *)
(*                                                                         *)
(* Spec and LiveSpec are the concurrent token protocol of the facade.      *)
(* NormSpec is the error normaliser of the two sub-clients, one call at a  *)
(* time against an arbitrary peer.  ServiceSpec is the facade's post       *)
(* operations, one call at a time, against the blog server and its posts   *)
(* table (blog-server/src).  EditSpec is one caller that sets and clears   *)
(* the token and creates, edits and deletes posts in sequence.  UiSpec is  *)
(* the browser application (blog-wasm/src) against the same server.        *)
(***************************************************************************)
EXTENDS Integers, Sequences, FiniteSets, TLC

\* ------------------------------------------------------------------ bounds
\* Total number of facade calls issued in one behaviour.
MaxCalls == 3

\* Caller tasks that share one BlogClient instance.
Callers == {1, 2}

\* Bearer tokens the remote service may issue / the caller may pass to set_token.
Tokens == {"t1", "t2"}

\* ------------------------------------------------------------ plain values
\* Option::None of the canonical and of the mirrored token.
NoToken == "none"

\* The empty string a gRPC response carries when a string field is not sent.
EmptyToken == ""

\* No authorization header / metadata entry on a request.
NoHeader == "no-header"

Transports == {"Http", "Grpc"}

AuthOps == {"register", "login"}

\* Post operations that go through add_auth_header.
WriteOps == {"create_post", "update_post", "delete_post"}

\* Post operations that never carry a credential.
ReadOps == {"get_post", "list_posts"}

PostOps == WriteOps \cup ReadOps

\* Calls that may change the session token.
TokenOps == AuthOps \cup {"set_token", "clear_token"}

VARIABLES
    transport,   \* BlogClient.transport
    token,       \* BlogClient.token: the canonical session token
    sub_token,   \* HttpClient.token / GrpcClient.token of the active sub-client
    tokenQ,      \* FIFO of tasks at BlogClient.token.lock(); the head owns it
    clientQ,     \* FIFO of tasks at the sub-client lock(); the head owns it
    pc,          \* per caller: where its current facade call is suspended
    cur,         \* per caller: the call in progress (operation and argument)
    req,         \* per caller: credential on the request it has in flight
    bg,          \* tokio::spawn'ed token updates that have not finished
    nbg,         \* number of tasks spawned so far (task ids)
    ncalls,      \* number of facade calls issued so far
    \* ---- observation variables (written, never read, by the actions)
    tokHist,     \* token-changing calls in the order they were issued
    ret,         \* per caller: what its last completed call returned
    prev,        \* per caller: what the call before that returned
    wrote,       \* per caller: which token copies its current call has written
    dropped,     \* per caller: `wrote` of its last abandoned call, and whether
                 \* the call was blocked when it was dropped
    issued,      \* per caller: the canonical token, and whether no token
                 \* update was pending, when its current call was issued
    authOk,      \* some register or login has returned success
    recording,   \* whether the observation variables are being recorded
    \* ---- the remote service and single exchanges with it
    posts,       \* rows of the posts table, in the order list() returns them
    next_id,     \* the next value of the posts.id serial column
    now,         \* the database clock: what NOW() returns to the next statement
    exch,        \* the last facade call answered by the blog server
    norm,        \* the last sub-client call and the result it was turned into
    sub_clients, \* which of BlogClient.http_client / grpc_client is Some
    ui           \* the browser application: App's fields and its message queue

vars == <<transport, token, sub_token, tokenQ, clientQ, pc, cur, req, bg, nbg,
          ncalls, tokHist, ret, prev, wrote, dropped, issued, authOk, recording,
          posts, next_id, now, exch, norm, sub_clients, ui>>

\* The remote store and the record of the last exchange.
serviceVars == <<posts, next_id, now, exch, norm>>

\* What BlogClient::new builds besides the token and no method writes.
builtVars == <<sub_clients>>

\* The browser application, a client of its own that shares only the server.
browserVars == <<ui>>

\* Fixed after construction; the token protocol never touches the store.
fixed == <<transport, recording, serviceVars, builtVars, browserVars>>

obsVars == <<tokHist, ret, prev, wrote, dropped, issued, authOk>>

\* --------------------------------------------------------------- helpers
NoCall == [op |-> "none", arg |-> EmptyToken]

NoRet == [op |-> "none", ok |-> FALSE, tok |-> EmptyToken]

NotDropped == [copies |-> {}, at |-> "never"]

NotIssued == [canon |-> NoToken, settled |-> FALSE]

\* Option<i64>: None is the empty tuple, Some(x) the tuple of x.
None == <<>>

Some(x) == <<x>>

\* No sub-client call has been made yet.
NoOutcome ==
    [op |-> "none", reached |-> FALSE, status |-> 0, body |-> "none",
     code |-> "none", dial |-> "none", kind |-> "none", detail |-> <<>>,
     before |-> NoToken]

\* No facade call has been answered by the server yet.
NoExchange ==
    [op |-> "none", cred |-> "none", id |-> 0, limit |-> None, offset |-> None,
     page |-> 0, page_size |-> 0, kind |-> "none", items |-> <<>>,
     total_count |-> 0, total |-> 0, r_limit |-> 0, r_offset |-> 0,
     absent |-> FALSE, session |-> NoToken, outcome |-> "none",
     title |-> None, content |-> None, post |-> None, before |-> None]

\* tokio::sync::Mutex::lock(): join the FIFO of waiters.
Enqueue(q, t) == Append(q, t)

\* The task that owns the mutex (0: the mutex is free).
Holder(q) == IF q = <<>> THEN 0 ELSE Head(q)

\* A guard that is leaked instead of dropped: the permit never passes on.
ReleaseLeaked(q) == q

\* Dropping a MutexGuard: the permit passes to the next waiter.
Release(q) == Tail(q)

\* Dropping a future that waits for, or owns, the mutex.
Withdraw(q, t) == SelectSeq(q, LAMBDA x : x # t)

\* HttpClient::add_auth_header / GrpcClient::add_auth_header: the credential
\* attached is the sub-client's own token field, if it has one.
AddAuthHeader(mirror) == IF mirror # NoToken THEN mirror ELSE NoHeader

\* Observation: what the caller sees when a call returns.
Returned(c, r) ==
    /\ prev' = IF recording THEN [prev EXCEPT ![c] = ret[c]] ELSE prev
    /\ ret' = IF recording THEN [ret EXCEPT ![c] = r] ELSE ret

\* Observation: the current call of c has written these token copies.
Wrote(c, copies) ==
    wrote' = IF recording THEN [wrote EXCEPT ![c] = @ \cup copies] ELSE wrote

\* Bookkeeping shared by every call when it is issued.
Issue(c, op, arg, p) ==
    /\ pc[c] = "idle"
    /\ ncalls < MaxCalls
    /\ ncalls' = ncalls + 1
    /\ pc' = [pc EXCEPT ![c] = p]
    /\ cur' = [cur EXCEPT ![c] = [op |-> op, arg |-> arg]]
    /\ tokHist' = IF recording /\ op \in TokenOps
                  THEN Append(tokHist, [c |-> c, op |-> op, arg |-> arg])
                  ELSE tokHist
    /\ issued' = IF recording
                 THEN [issued EXCEPT ![c] = [canon |-> token, settled |-> bg = {}]]
                 ELSE issued
    /\ UNCHANGED <<fixed, token, sub_token, req, bg, nbg, ret, prev, wrote,
                   dropped, authOk>>

\* Bookkeeping shared by every call when it returns (or is dropped).
Finish(c) ==
    /\ pc' = [pc EXCEPT ![c] = "idle"]
    /\ cur' = [cur EXCEPT ![c] = NoCall]
    /\ req' = [req EXCEPT ![c] = NoHeader]
    /\ wrote' = [wrote EXCEPT ![c] = {}]
    /\ issued' = [issued EXCEPT ![c] = NotIssued]
    /\ UNCHANGED <<fixed, ncalls, tokHist>>

\* ------------------------------------------------------------------ Init
\* No request of the browser application in flight.
NoFlight == [op |-> "none", id |-> 0, cred |-> "none"]

\* No delete answered yet.
NoDelete ==
    [id |-> 0, status |-> 0, result |-> "none", handled |-> FALSE, total |-> 0]

\* App::create: no posts loaded, nothing loading, no error shown.
AppCreate ==
    [posts |-> <<>>, posts_total |-> 0, loading |-> FALSE, error |-> <<>>,
     flight |-> NoFlight, inbox |-> <<>>, last |-> NoDelete]

\* BlogClient::new with both sub-clients built, whatever the transport.
NewSubClientsBoth(tr) == {"Http", "Grpc"}

\* BlogClient::new: the sub-client of the given transport is Some, the
\* other one None.
NewSubClients(tr) == {tr}

\* BlogClient::new: no token anywhere, both locks free.
Init ==
    /\ transport \in Transports
    /\ token = NoToken
    /\ sub_token = NoToken
    /\ tokenQ = <<>>
    /\ clientQ = <<>>
    /\ pc = [c \in Callers |-> "idle"]
    /\ cur = [c \in Callers |-> NoCall]
    /\ req = [c \in Callers |-> NoHeader]
    /\ bg = {}
    /\ nbg = 0
    /\ ncalls = 0
    /\ tokHist = <<>>
    /\ ret = [c \in Callers |-> NoRet]
    /\ prev = [c \in Callers |-> NoRet]
    /\ wrote = [c \in Callers |-> {}]
    /\ dropped = [c \in Callers |-> NotDropped]
    /\ issued = [c \in Callers |-> NotIssued]
    /\ authOk = FALSE
    /\ recording = TRUE
    /\ posts = <<>>
    /\ next_id = 1
    /\ now = 1
    /\ exch = NoExchange
    /\ norm = NoOutcome
    /\ sub_clients = NewSubClients(transport)
    /\ ui = AppCreate

\* The same client with the observation variables switched off: they are
\* never read by the program, so its behaviours are the same.
LiveInit ==
    /\ transport \in Transports
    /\ token = NoToken
    /\ sub_token = NoToken
    /\ tokenQ = <<>>
    /\ clientQ = <<>>
    /\ pc = [c \in Callers |-> "idle"]
    /\ cur = [c \in Callers |-> NoCall]
    /\ req = [c \in Callers |-> NoHeader]
    /\ bg = {}
    /\ nbg = 0
    /\ ncalls = 0
    /\ tokHist = <<>>
    /\ ret = [c \in Callers |-> NoRet]
    /\ prev = [c \in Callers |-> NoRet]
    /\ wrote = [c \in Callers |-> {}]
    /\ dropped = [c \in Callers |-> NotDropped]
    /\ issued = [c \in Callers |-> NotIssued]
    /\ authOk = FALSE
    /\ recording = FALSE
    /\ posts = <<>>
    /\ next_id = 1
    /\ now = 1
    /\ exch = NoExchange
    /\ norm = NoOutcome
    /\ sub_clients = NewSubClients(transport)
    /\ ui = AppCreate

\* ------------------------------------------------------------- set_token
\* set_token is called: it waits for the token lock.
set_token(c, t) ==
    /\ Issue(c, "set_token", t, "st_token")
    /\ tokenQ' = Enqueue(tokenQ, c)
    /\ UNCHANGED clientQ

\* With the token lock: write the canonical token, then wait for the
\* sub-client lock (the token guard is still alive).
SetTokenCanonical(c) ==
    /\ pc[c] = "st_token"
    /\ Holder(tokenQ) = c
    /\ token' = cur[c].arg
    /\ clientQ' = Enqueue(clientQ, c)
    /\ pc' = [pc EXCEPT ![c] = "st_client"]
    /\ Wrote(c, {"canonical"})
    /\ UNCHANGED <<fixed, sub_token, tokenQ, cur, req, bg, nbg, ncalls,
                   tokHist, ret, prev, dropped, issued, authOk>>

\* With both locks: write the mirror; both guards are dropped on return.
SetTokenMirror(c) ==
    /\ pc[c] = "st_client"
    /\ Holder(clientQ) = c
    /\ sub_token' = cur[c].arg
    /\ clientQ' = Release(clientQ)
    /\ tokenQ' = Release(tokenQ)
    /\ Returned(c, [op |-> "set_token", ok |-> TRUE, tok |-> cur[c].arg])
    /\ Finish(c)
    /\ UNCHANGED <<token, bg, nbg, dropped, authOk>>

\* ------------------------------------------------------------- get_token
get_token(c) ==
    /\ Issue(c, "get_token", EmptyToken, "gt_token")
    /\ tokenQ' = Enqueue(tokenQ, c)
    /\ UNCHANGED clientQ

\* With the token lock: clone the canonical token.
GetTokenRead(c) ==
    /\ pc[c] = "gt_token"
    /\ Holder(tokenQ) = c
    /\ tokenQ' = Release(tokenQ)
    /\ Returned(c, [op |-> "get_token", ok |-> TRUE, tok |-> token])
    /\ Finish(c)
    /\ UNCHANGED <<token, sub_token, clientQ, bg, nbg, dropped, authOk>>

\* ----------------------------------------------------------- clear_token
clear_token(c) ==
    /\ Issue(c, "clear_token", EmptyToken, "ct_token")
    /\ tokenQ' = Enqueue(tokenQ, c)
    /\ UNCHANGED clientQ

\* With the token lock: the canonical token becomes None.  The sub-client
\* is not touched.
ClearTokenWrite(c) ==
    /\ pc[c] = "ct_token"
    /\ Holder(tokenQ) = c
    /\ token' = NoToken
    /\ tokenQ' = Release(tokenQ)
    /\ Returned(c, [op |-> "clear_token", ok |-> TRUE, tok |-> EmptyToken])
    /\ Finish(c)
    /\ UNCHANGED <<sub_token, clientQ, bg, nbg, dropped, authOk>>

\* ------------------------------------------------------ register / login
\* Token field of a success response of the remote service.  The gRPC
\* Register handler answers with user_id and message only, so the client
\* decodes an empty token; every other auth response carries a token.
ServerTokens(tr, op) ==
    IF tr = "Grpc" /\ op = "register" THEN {EmptyToken} ELSE Tokens

\* HttpClient::handle_auth_response on 200/201: the mirror takes the token.
HttpHandleAuthResponse(mirror, tok) == tok

\* GrpcClient::register / login: the mirror takes a non-empty token only.
GrpcStoreToken(mirror, tok) == IF tok # EmptyToken THEN tok ELSE mirror

\* The sub-client's token after a success response.
MirrorAfterAuth(tr, mirror, tok) ==
    IF tr = "Http" THEN HttpHandleAuthResponse(mirror, tok)
                   ELSE GrpcStoreToken(mirror, tok)

\* The token the facade hands to tokio::spawn for the canonical copy
\* (NoToken: nothing is spawned).  Http: whatever the sub-client now holds;
\* Grpc login: the response token if non-empty; Grpc register: nothing.
SpawnedToken(tr, op, newMirror, tok) ==
    IF tr = "Http" THEN newMirror
    ELSE IF op = "login" /\ tok # EmptyToken THEN tok
    ELSE NoToken

\* AuthResponse.token as returned to the caller.  Grpc register builds the
\* response with token "".
FacadeAuthToken(tr, op, tok) ==
    IF tr = "Grpc" /\ op = "register" THEN EmptyToken ELSE tok

\* Task id of the k-th spawned token update.
BgId(k) == Cardinality(Callers) + k

\* tokio::spawn(async move { *token.lock().await = Some(t) }), or nothing.
Spawn(t) ==
    IF t # NoToken
    THEN /\ bg' = bg \cup {[id |-> BgId(nbg + 1), tok |-> t, queued |-> FALSE]}
         /\ nbg' = nbg + 1
    ELSE UNCHANGED <<bg, nbg>>

register(c) ==
    /\ Issue(c, "register", EmptyToken, "auth_client")
    /\ clientQ' = Enqueue(clientQ, c)
    /\ UNCHANGED tokenQ

login(c) ==
    /\ Issue(c, "login", EmptyToken, "auth_client")
    /\ clientQ' = Enqueue(clientQ, c)
    /\ UNCHANGED tokenQ

\* With the sub-client lock: the request goes out; the guard stays alive
\* over the await.
AuthSend(c) ==
    /\ pc[c] = "auth_client"
    /\ Holder(clientQ) = c
    /\ pc' = [pc EXCEPT ![c] = "auth_flight"]
    /\ UNCHANGED <<fixed, token, sub_token, tokenQ, clientQ, cur, req, bg, nbg,
                   ncalls, obsVars>>

\* A success response arrives: the sub-client stores the token, the facade
\* spawns the canonical update and returns without awaiting it.
AuthSucceeds(c, tok) ==
    /\ pc[c] = "auth_flight"
    /\ tok \in ServerTokens(transport, cur[c].op)
    /\ LET m == MirrorAfterAuth(transport, sub_token, tok)
       IN  /\ sub_token' = m
           /\ Spawn(SpawnedToken(transport, cur[c].op, m, tok))
    /\ clientQ' = Release(clientQ)
    /\ authOk' = (recording \/ authOk)
    /\ Returned(c, [op |-> cur[c].op, ok |-> TRUE,
                    tok |-> FacadeAuthToken(transport, cur[c].op, tok)])
    /\ Finish(c)
    /\ UNCHANGED <<token, tokenQ, dropped>>

\* An error response (or a send failure): `?` returns it, nothing is stored.
AuthFails(c) ==
    /\ pc[c] = "auth_flight"
    /\ clientQ' = Release(clientQ)
    /\ Returned(c, [op |-> cur[c].op, ok |-> FALSE, tok |-> EmptyToken])
    /\ Finish(c)
    /\ UNCHANGED <<token, sub_token, tokenQ, bg, nbg, dropped, authOk>>

\* ------------------------------------------------- background token update
\* First poll of a spawned update: it joins the waiters of the token lock.
BgLock(b) ==
    /\ b \in bg
    /\ ~b.queued
    /\ tokenQ' = Enqueue(tokenQ, b.id)
    /\ bg' = (bg \ {b}) \cup {[b EXCEPT !.queued = TRUE]}
    /\ UNCHANGED <<fixed, token, sub_token, clientQ, pc, cur, req, nbg, ncalls,
                   obsVars>>

\* With the token lock: write the canonical token and finish.
BgWrite(b) ==
    /\ b \in bg
    /\ b.queued
    /\ Holder(tokenQ) = b.id
    /\ token' = b.tok
    /\ tokenQ' = Release(tokenQ)
    /\ bg' = bg \ {b}
    /\ UNCHANGED <<fixed, sub_token, clientQ, pc, cur, req, nbg, ncalls, obsVars>>

\* ------------------------------------------------------------ post calls
IssuePost(c, op) ==
    /\ Issue(c, op, EmptyToken, "post_client")
    /\ clientQ' = Enqueue(clientQ, c)
    /\ UNCHANGED tokenQ

create_post(c) == IssuePost(c, "create_post")

get_post(c) == IssuePost(c, "get_post")

update_post(c) == IssuePost(c, "update_post")

delete_post(c) == IssuePost(c, "delete_post")

list_posts(c) == IssuePost(c, "list_posts")

\* The credential a sub-client puts on the request of a post operation.
Credential(op, mirror) ==
    IF op \in WriteOps THEN AddAuthHeader(mirror) ELSE NoHeader

\* With the sub-client lock: build the request and send it; the guard stays
\* alive over the await.
PostSend(c) ==
    /\ pc[c] = "post_client"
    /\ Holder(clientQ) = c
    /\ req' = [req EXCEPT ![c] = Credential(cur[c].op, sub_token)]
    /\ pc' = [pc EXCEPT ![c] = "post_flight"]
    /\ UNCHANGED <<fixed, token, sub_token, tokenQ, clientQ, cur, bg, nbg,
                   ncalls, obsVars>>

\* The response (success or error) arrives and the call returns.
PostResponds(c, ok) ==
    /\ pc[c] = "post_flight"
    /\ clientQ' = Release(clientQ)
    /\ Returned(c, [op |-> cur[c].op, ok |-> ok, tok |-> EmptyToken])
    /\ Finish(c)
    /\ UNCHANGED <<token, sub_token, tokenQ, bg, nbg, dropped, authOk>>

\* ------------------------------------------------------------ cancellation
\* The call of c cannot proceed: its request is on the wire, or another task
\* owns the lock it waits for.
Blocked(c) ==
    \/ pc[c] \in {"auth_flight", "post_flight"}
    \/ pc[c] \in {"st_token", "gt_token", "ct_token"} /\ Holder(tokenQ) # c
    \/ pc[c] \in {"st_client", "auth_client", "post_client"} /\ Holder(clientQ) # c

\* The caller drops the future of its call at the await it is suspended at:
\* guards it owns are released, pending lock requests are withdrawn.
Abandon(c) ==
    /\ pc[c] # "idle"
    /\ tokenQ' = Withdraw(tokenQ, c)
    /\ clientQ' = Withdraw(clientQ, c)
    /\ dropped' = IF recording
                  THEN [dropped EXCEPT ![c] =
                           [copies |-> wrote[c],
                            at |-> IF Blocked(c) THEN "blocked" ELSE "ready"]]
                  ELSE dropped
    /\ Returned(c, [op |-> "abandoned", ok |-> FALSE, tok |-> EmptyToken])
    /\ Finish(c)
    /\ UNCHANGED <<token, sub_token, bg, nbg, authOk>>

\* ------------------------------------------------------------------ Next
CallerStep(c) ==
    \/ SetTokenCanonical(c)
    \/ SetTokenMirror(c)
    \/ GetTokenRead(c)
    \/ ClearTokenWrite(c)
    \/ AuthSend(c)
    \/ PostSend(c)

NetworkStep(c) ==
    \/ \E tok \in Tokens \cup {EmptyToken} : AuthSucceeds(c, tok)
    \/ AuthFails(c)
    \/ \E ok \in BOOLEAN : PostResponds(c, ok)

BgStep(id) == \E b \in bg : b.id = id /\ (BgLock(b) \/ BgWrite(b))

Call(c) ==
    \/ \E t \in Tokens : set_token(c, t)
    \/ get_token(c)
    \/ clear_token(c)
    \/ register(c)
    \/ login(c)
    \/ create_post(c)
    \/ get_post(c)
    \/ update_post(c)
    \/ delete_post(c)
    \/ list_posts(c)

Next ==
    \/ \E c \in Callers : Call(c)
    \/ \E c \in Callers : CallerStep(c)
    \/ \E c \in Callers : NetworkStep(c)
    \/ \E c \in Callers : Abandon(c)
    \/ \E k \in 1..MaxCalls : BgStep(BgId(k))

Spec == Init /\ [][Next]_vars

\* Scheduling is fair and every round trip returns: each task that can take
\* its next step eventually takes it.  Callers are free not to issue calls
\* and not to abandon them.
Fairness ==
    /\ \A c \in Callers : WF_vars(CallerStep(c))
    /\ \A c \in Callers : WF_vars(NetworkStep(c))
    /\ \A k \in 1..MaxCalls : WF_vars(BgStep(BgId(k)))

LiveSpec == LiveInit /\ [][Next]_vars /\ Fairness

\* =========================================================== properties
\* No facade call in flight and no background token update pending.
Quiescent == (\A c \in Callers : pc[c] = "idle") /\ bg = {}

\* Every token-changing call so far was issued by caller c, hence one after
\* the other: each had returned before the next was issued.
OnlyCaller(c) == \A i \in DOMAIN tokHist : tokHist[i].c = c

\* No call has been abandoned.
NoneDropped == \A c \in Callers : dropped[c] = NotDropped

\* A caller whose request is on the wire.
InFlight(c) == pc[c] \in {"auth_flight", "post_flight"}

\* A caller that waits for the sub-client lock before it can send.
WaitsToSend(c) == pc[c] \in {"auth_client", "post_client"} /\ Holder(clientQ) # c

\* The operations of the token-changing calls issued so far.
TokOps == [i \in DOMAIN tokHist |-> tokHist[i].op]

\* C1: in a run that performs register and then login (and no other
\* token-changing call), once login has returned success and every spawned
\* token update has run, the canonical token is the token of the login
\* response.
C1_LoginTokenHeld ==
    \A c \in Callers :
        ( /\ TokOps = <<"register", "login">>
          /\ OnlyCaller(c)
          /\ NoneDropped
          /\ pc[c] = "idle"
          /\ ret[c].op = "login" /\ ret[c].ok
          /\ bg = {} )
        => token = ret[c].tok

\* C2: a get_token issued by the same caller right after a register or login
\* that returned success with a token yields that token.
C2_NewTokenVisibleToCaller ==
    \A c \in Callers :
        ( /\ OnlyCaller(c)
          /\ ret[c].op = "get_token"
          /\ prev[c].op \in AuthOps /\ prev[c].ok
          /\ prev[c].tok # EmptyToken )
        => ret[c].tok = prev[c].tok

\* C3: in every quiescent state after a successful register or login, for any
\* sequence of register, login, set_token and clear_token, the mirrored token
\* equals the canonical token.
C3_MirrorAgreesWhenQuiescent ==
    (Quiescent /\ authOk /\ NoneDropped) => sub_token = token

\* C4: the credential on the request of create_post, update_post and
\* delete_post is exactly the canonical token held when the call was issued,
\* and there is no credential when no token was held (stated for calls
\* issued by the one caller that changes the token, with no token update
\* pending, so that nothing else can have changed the token meanwhile).
C4_WriteCarriesSessionToken ==
    \A c \in Callers :
        ( /\ pc[c] = "post_flight"
          /\ cur[c].op \in WriteOps
          /\ issued[c].settled
          /\ OnlyCaller(c)
          /\ NoneDropped )
        => req[c] = (IF issued[c].canon # NoToken THEN issued[c].canon
                                                 ELSE NoHeader)

\* C5: once the last token-changing call, a set_token or a clear_token issued
\* after every earlier register/login had returned, has completed, the
\* canonical token is the value it wrote.
C5_SetTokenValueStays ==
    \A c \in Callers :
        ( /\ tokHist # <<>>
          /\ OnlyCaller(c)
          /\ NoneDropped
          /\ pc[c] = "idle"
          /\ tokHist[Len(tokHist)].op \in {"set_token", "clear_token"} )
        => token = (IF tokHist[Len(tokHist)].op = "set_token"
                    THEN tokHist[Len(tokHist)].arg
                    ELSE NoToken)

\* C6: no task owns the token lock while a remote request is in flight; in
\* particular none owns it while waiting for the sub-client lock of a call
\* whose request is in flight.
C6_TokenLockNotHeldOverRoundTrip ==
    ~ \E h \in Callers, o \in Callers :
          /\ Holder(tokenQ) = h
          /\ pc[h] = "st_client"
          /\ Holder(clientQ) = o
          /\ InFlight(o)

\* C7: no call has to wait for another call's round trip before it sends its
\* own request (the connection handle is never exclusively locked).
C7_NoCallWaitsForRoundTrip ==
    ~ \E a \in Callers, b \in Callers :
          /\ a # b
          /\ InFlight(a)
          /\ WaitsToSend(b)

\* C8: under fair scheduling and with every round trip returning, every call
\* and every background token update completes: the client is quiescent
\* again and again, whatever calls were issued concurrently.
C8_EveryCallCompletes == []<>Quiescent

\* C8 witness: set_token owns the token lock and waits for the sub-client
\* lock, which a call in flight owns, while a spawned update waits for the
\* token lock.
C8_Contention ==
    \E h \in Callers, o \in Callers :
        /\ pc[h] = "st_client"
        /\ Holder(tokenQ) = h
        /\ InFlight(o)
        /\ Holder(clientQ) = o
        /\ \E b \in bg : b.queued

\* C9: a call abandoned at a suspension point (stated for the points where
\* it was blocked: behind the owner of a lock, or with its request in flight)
\* has written both token copies or neither.
C9_AbandonIsAllOrNothing ==
    \A c \in Callers :
        dropped[c].at = "blocked"
        => dropped[c].copies \in {{}, {"canonical", "mirror"}}

\* C10: a successful register hands the issued token to the caller, and once
\* the spawned update has run that token is the canonical token.
C10_RegisterYieldsToken ==
    \A c \in Callers :
        (ret[c].op = "register" /\ ret[c].ok)
        => /\ ret[c].tok # EmptyToken
           /\ ( /\ TokOps = <<"register">>
                /\ bg = {} )
              => token = ret[c].tok


\* ================================================ the error normaliser
\* What a sub-client turns a native answer into (blog-client/src/error.rs,
\* http_client.rs, grpc_client.rs).  A result is the BlogClientError variant
\* (or "Ok") with the pieces of its detail text.

\* The facade state that the single-exchange specifications leave alone.
facadeVars ==
    <<token, tokenQ, clientQ, pc, cur, req, bg, nbg, ncalls, obsVars, builtVars,
      browserVars>>

\* reqwest::StatusCode values a remote HTTP server may answer with.
HttpStatuses == {200, 201, 204, 400, 401, 403, 404, 409, 500}

\* tonic::Code of an Err(tonic::Status); "Ok" stands for an Ok(Response).
GrpcCodes ==
    {"Cancelled", "Unknown", "InvalidArgument", "DeadlineExceeded", "NotFound",
     "AlreadyExists", "PermissionDenied", "ResourceExhausted",
     "FailedPrecondition", "Aborted", "OutOfRange", "Unimplemented",
     "Internal", "Unavailable", "DataLoss", "Unauthenticated"}

\* Whether an HTTP body decodes against the shape the operation expects.
Bodies == {"valid", "malformed"}

\* Whether an Ok gRPC message carries the optional parts the client needs
\* (LoginResponse.user, DeletePostResponse.success).
GrpcPayloads == {"valid", "incomplete"}

\* How dialing the gRPC channel in GrpcClient::new ends.
Dials == {"connected", "invalid_uri", "refused"}

\* response.text() of an error response / status.message().
ErrorText == "detail"

OkResult == [kind |-> "Ok", detail |-> <<>>]

Err(kind, detail) == [kind |-> kind, detail |-> detail]

\* `?` on a reqwest::Error: #[from] reqwest::Error makes it HttpError.
FromReqwestError(what) == Err("HttpError", <<what>>)

\* format!("HTTP {}: {}", status, error_text) in the catch-all arms.
UnexpectedStatus(status) ==
    Err("TransportError", <<"HTTP ", ToString(status), ": ", ErrorText>>)

\* response.json::<T>().await?
DecodeJson(body) ==
    IF body = "valid" THEN OkResult ELSE FromReqwestError("decode")

\* HttpClient::handle_auth_response.
handle_auth_response(status, body) ==
    CASE status \in {200, 201} -> DecodeJson(body)
      [] status = 401 -> Err("Unauthorized", <<ErrorText>>)
      [] status = 404 -> Err("NotFound", <<>>)
      [] status = 409 -> Err("InvalidRequest", <<ErrorText>>)
      [] OTHER -> UnexpectedStatus(status)

\* A 404 arm that falls through to the catch-all.
handle_post_response_no404(status, body) ==
    CASE status \in {200, 201} -> DecodeJson(body)
      [] status = 401 -> Err("Unauthorized", <<ErrorText>>)
      [] status = 403 -> Err("InvalidRequest", <<"Forbidden: ", ErrorText>>)
      [] OTHER -> UnexpectedStatus(status)

\* HttpClient::handle_post_response (create_post, get_post, update_post).
handle_post_response(status, body) ==
    CASE status \in {200, 201} -> DecodeJson(body)
      [] status = 401 -> Err("Unauthorized", <<ErrorText>>)
      [] status = 404 -> Err("NotFound", <<>>)
      [] status = 403 -> Err("InvalidRequest", <<"Forbidden: ", ErrorText>>)
      [] OTHER -> UnexpectedStatus(status)

\* The status match of HttpClient::delete_post.
HttpDeletePost(status) ==
    CASE status = 204 -> OkResult
      [] status = 401 -> Err("Unauthorized", <<ErrorText>>)
      [] status = 404 -> Err("NotFound", <<>>)
      [] OTHER -> UnexpectedStatus(status)

\* The status match of HttpClient::list_posts.
HttpListPosts(status, body) ==
    CASE status = 200 -> DecodeJson(body)
      [] OTHER -> UnexpectedStatus(status)

\* One HttpClient method: send().await? and then the status match.
HttpResult(op, reached, status, body) ==
    IF ~reached THEN FromReqwestError("send")
    ELSE CASE op \in AuthOps -> handle_auth_response(status, body)
           [] op \in {"create_post", "get_post", "update_post"} ->
                  handle_post_response(status, body)
           [] op = "delete_post" -> HttpDeletePost(status)
           [] op = "list_posts" -> HttpListPosts(status, body)

\* impl From<tonic::Status> for BlogClientError.
FromStatus(code) ==
    CASE code = "NotFound" -> Err("NotFound", <<>>)
      [] code = "Unauthenticated" -> Err("Unauthorized", <<ErrorText>>)
      [] code = "InvalidArgument" -> Err("InvalidRequest", <<ErrorText>>)
      [] OTHER -> Err("GrpcError", <<code, ErrorText>>)

\* One GrpcClient method and the facade branch around it: `?` on the
\* status, then the checks on the decoded message.
GrpcResult(op, code, payload) ==
    IF code # "Ok" THEN FromStatus(code)
    ELSE IF op = "delete_post" /\ payload = "incomplete"
         THEN Err("TransportError", <<ErrorText>>)
    ELSE IF op = "login" /\ payload = "incomplete"
         THEN Err("InvalidRequest", <<"No user data in response">>)
    ELSE OkResult

\* The text of the error of a facade method whose sub-client is None.
NotInitialized(tr) ==
    IF tr = "Http" THEN "HTTP client not initialized"
                   ELSE "gRPC client not initialized"

\* match &self.transport, then `if let Some(client)` on the sub-client of
\* that transport: r is what the branch returns when the sub-client is there.
Dispatch(tr, clients, r) ==
    IF tr \in clients THEN r ELSE Err("TransportError", <<NotInitialized(tr)>>)

\* GrpcClient::new: Channel::from_shared(addr)?.connect().await?
GrpcNew(dial) ==
    CASE dial = "invalid_uri" -> Err("InvalidUri", <<>>)
      [] dial = "refused" -> Err("GrpcTransportError", <<>>)
      [] OTHER -> OkResult

\* The record of one sub-client call.
Outcome(op, reached, status, body, code, dial, r) ==
    [op |-> op, reached |-> reached, status |-> status, body |-> body,
     code |-> code, dial |-> dial, kind |-> r.kind, detail |-> r.detail,
     before |-> sub_token]

\* BlogClient::new over the configured transport: only the gRPC branch
\* dials; the HTTP branch builds its sub-client without connecting.
Construct(dial) ==
    /\ norm' = IF transport = "Grpc"
               THEN Outcome("new", dial = "connected", 0, "none", "none", dial,
                            GrpcNew(dial))
               ELSE Outcome("new", FALSE, 0, "none", "none", "none", OkResult)
    /\ UNCHANGED <<transport, recording, facadeVars, sub_token, posts,
                   next_id, now, exch>>

\* An HttpClient call answered (or not) by some HTTP server.  A decoded
\* auth response is stored as the sub-client's token.
HttpCall(op, reached, status, body, tok) ==
    /\ transport = "Http"
    /\ LET r == Dispatch(transport, sub_clients,
                         HttpResult(op, reached, status, body))
       IN  /\ norm' = IF reached
                       THEN Outcome(op, TRUE, status, body, "none", "none", r)
                       ELSE Outcome(op, FALSE, 0, "none", "none", "none", r)
           /\ sub_token' = IF op \in AuthOps /\ r.kind = "Ok"
                           THEN HttpHandleAuthResponse(sub_token, tok)
                           ELSE sub_token
    /\ UNCHANGED <<transport, recording, facadeVars, posts, next_id, now,
                   exch>>

\* A GrpcClient call answered with Ok(message) or Err(status).
GrpcCall(op, code, payload, tok) ==
    /\ transport = "Grpc"
    /\ LET r == Dispatch(transport, sub_clients, GrpcResult(op, code, payload))
       IN  /\ norm' = Outcome(op, TRUE, 0, payload, code, "none", r)
           /\ sub_token' = IF op \in AuthOps /\ code = "Ok"
                                 /\ transport \in sub_clients
                           THEN GrpcStoreToken(sub_token, tok)
                           ELSE sub_token
    /\ UNCHANGED <<transport, recording, facadeVars, posts, next_id, now,
                   exch>>

NormNext ==
    \/ \E dial \in Dials : Construct(dial)
    \/ \E op \in AuthOps \cup PostOps, reached \in BOOLEAN,
          status \in HttpStatuses, body \in Bodies, tok \in Tokens :
          HttpCall(op, reached, status, body, tok)
    \/ \E op \in AuthOps \cup PostOps, code \in GrpcCodes \cup {"Ok"},
          payload \in GrpcPayloads, tok \in Tokens \cup {EmptyToken} :
          GrpcCall(op, code, payload, tok)

\* Single sub-client calls against an arbitrary remote peer.
NormSpec == Init /\ [][NormNext]_vars


\* ------------------------------------------- properties of the normaliser
Answered == norm.op \in AuthOps \cup PostOps

HttpAnswer(status) ==
    Answered /\ transport = "Http" /\ norm.reached /\ norm.status = status

GrpcAnswer(code) == Answered /\ transport = "Grpc" /\ norm.code = code

\* The error kinds of the unified taxonomy.
Taxonomy ==
    {"Unauthorized", "NotFound", "Forbidden", "InvalidRequest",
     "AlreadyExists", "TransportError", "SerializationError"}

\* The statuses after which an HttpClient method decodes the body.
Decodes(op, status) ==
    \/ op \in AuthOps \cup {"create_post", "get_post", "update_post"}
       /\ status \in {200, 201}
    \/ op = "list_posts" /\ status = 200

\* C14: every HTTP 401 answer and every RPC status 'unauthenticated', to
\* any operation, is returned as Unauthorized carrying the detail text.
C14_UnauthenticatedIsUnauthorized ==
    (HttpAnswer(401) \/ GrpcAnswer("Unauthenticated"))
        => norm.kind = "Unauthorized" /\ norm.detail = <<ErrorText>>

\* C16: an HTTP 409 answer to any operation is returned as InvalidRequest,
\* and an RPC status 'already exists' as the AlreadyExists kind.
C16_ConflictPerTransport ==
    /\ HttpAnswer(409) => norm.kind = "InvalidRequest"
    /\ GrpcAnswer("AlreadyExists") => norm.kind = "AlreadyExists"

\* C17: an HTTP 403 answer to any operation is returned as InvalidRequest
\* whose detail starts with "Forbidden:", and an RPC status 'permission
\* denied' as the Forbidden kind.
C17_ForbiddenPerTransport ==
    /\ HttpAnswer(403) =>
           /\ norm.kind = "InvalidRequest"
           /\ norm.detail # <<>>
           /\ Head(norm.detail) = "Forbidden: "
    /\ GrpcAnswer("PermissionDenied") => norm.kind = "Forbidden"

\* C18: every non-2xx HTTP status other than 401, 403, 404 and 409, and
\* every RPC status code other than unauthenticated, not-found,
\* already-exists and permission-denied, is returned as TransportError with
\* the formatted status and body; whatever the status, no error outside the
\* unified taxonomy reaches the caller.
C18_OtherStatusIsTransportError ==
    /\ (Answered /\ transport = "Http" /\ norm.reached
        /\ norm.status \notin {200, 201, 204, 401, 403, 404, 409})
           => /\ norm.kind = "TransportError"
              /\ norm.detail = <<"HTTP ", ToString(norm.status), ": ", ErrorText>>
    /\ (Answered /\ transport = "Grpc"
        /\ norm.code \notin {"Ok", "Unauthenticated", "NotFound",
                             "AlreadyExists", "PermissionDenied"})
           => norm.kind = "TransportError"
    /\ (Answered /\ transport = "Http" /\ norm.reached
        /\ norm.status \notin {200, 201, 204})
           => norm.kind \in Taxonomy
    /\ (Answered /\ transport = "Grpc" /\ norm.code # "Ok")
           => norm.kind \in Taxonomy

\* C19: a failure to dial the RPC channel at construction, or to reach the
\* HTTP server when a request is sent, is returned as TransportError.
C19_ConnectFailureIsTransportError ==
    /\ (norm.op = "new" /\ norm.dial \in {"invalid_uri", "refused"})
           => norm.kind = "TransportError"
    /\ (Answered /\ transport = "Http" /\ ~norm.reached)
           => norm.kind = "TransportError"

\* C20: a success response whose body does not decode against the expected
\* shape is returned as SerializationError, and register/login then leave
\* the token as it was.
C20_DecodeFailureIsSerializationError ==
    (Answered /\ transport = "Http" /\ norm.reached
     /\ Decodes(norm.op, norm.status) /\ norm.body = "malformed")
        => /\ norm.kind = "SerializationError"
           /\ norm.op \in AuthOps => sub_token = norm.before


\* C26: when register or login returns any error, the token is what it was
\* before the call; that includes an RPC login whose response carries a
\* token but no user data.
C26_FailedAuthKeepsToken ==
    (norm.op \in AuthOps /\ norm.kind # "Ok") => sub_token = norm.before

\* C25: the transport selector never changes, exactly the sub-client of
\* that transport exists, and no operation returns the "HTTP client not
\* initialized" / "gRPC client not initialized" TransportError.
C25_TransportFixed ==
    /\ [](sub_clients = {transport})
    /\ [](norm.detail \notin {<<NotInitialized(tr)>> : tr \in Transports})
    /\ [][transport' = transport]_vars

\* An operation was dispatched to the gRPC sub-client and answered.
C25_DispatchedOverGrpc ==
    /\ transport = "Grpc" /\ sub_clients = {"Grpc"}
    /\ norm.op \in PostOps /\ norm.kind = "Ok"


\* ====================================================== the blog server
\* One facade call at a time against the blog server of this repository:
\* the facade translates the call, the server handler runs against the
\* posts table, and the sub-client normalises the answer.

\* Posts created in one behaviour.
MaxPosts == 3

\* Largest ordinary limit and offset a caller passes to list_posts.
MaxLimit == 3

MaxOffset == 4

\* limit.unwrap_or(10) in the facade.
DefaultLimit == 10

\* The page size the server falls back to, and its largest page size.
ServerDefaultLimit == 10

MaxPageSize == 100

\* Users a bearer token may verify to; Anonymous: no or an invalid token.
Users == {"u1", "u2"}

Anonymous == "anon"

\* A string of white space only.
Blank == " "

\* The titles and contents posts are created with.
Titles == {"Hello", Blank}

Contents == {"World", Blank}

\* The Option<String> arguments of update_post for a new title or content.
TitleEdits == {None, Some("New")}

ContentEdits == {None, Some("Text")}

\* NOW() values up to which updates are explored.
MaxClock == 3

\* Posts created where their content is explored.
MaxEdited == 2

\* Arguments of list_posts: Option<i64>, also non-positive and oversized.
Limits == {None} \cup {Some(l) : l \in (-1 .. MaxLimit) \cup {MaxPageSize + 1}}

Offsets == {None} \cup {Some(o) : o \in -1 .. MaxOffset}

\* Post ids a caller may ask for: created ones and ones never created.
Ids == 1 .. MaxPosts + 1

Min(a, b) == IF a < b THEN a ELSE b

Abs(a) == IF a < 0 THEN -a ELSE a

\* Rust's `/` on i64: the quotient is truncated toward zero (b # 0).
TruncDiv(a, b) ==
    IF (a < 0) # (b < 0) THEN -(Abs(a) \div Abs(b)) ELSE Abs(a) \div Abs(b)

\* Option::unwrap_or.
UnwrapOr(opt, d) == IF opt = None THEN d ELSE opt[1]

\* The facade's translation for the gRPC transport.  The values in the
\* model all lie within i32, where `as i32` is the identity.
\* A page number that starts at zero: the `+ 1` is missing.
GrpcPageZeroBased(limit, offset) ==
    TruncDiv(UnwrapOr(offset, 0), UnwrapOr(limit, DefaultLimit))

GrpcPage(limit, offset) ==
    TruncDiv(UnwrapOr(offset, 0), UnwrapOr(limit, DefaultLimit)) + 1

GrpcPageSize(limit) == UnwrapOr(limit, DefaultLimit)

\* PostService::list_posts on the server: back from page to limit/offset.
GrpcServerLimit(page_size) ==
    IF page_size > 0 /\ page_size <= MaxPageSize THEN page_size
    ELSE ServerDefaultLimit

GrpcServerOffset(page, limit) == IF page > 0 THEN (page - 1) * limit ELSE 0

\* BlogService::list_posts: the pagination parameters it accepts.
ValidPagination(limit, offset) == limit \in 1 .. MaxPageSize /\ offset >= 0

\* PostRepository::list: LIMIT $1 OFFSET $2 over the ordered rows.
RepoList(limit, offset) ==
    [i \in 1 .. (Min(offset + limit, Len(posts)) - Min(offset, Len(posts))) |->
        posts[offset + i].id]

\* PostRepository::find_by_id.
Exists(id) == \E i \in DOMAIN posts : posts[i].id = id

AuthorOf(id) == posts[CHOOSE i \in DOMAIN posts : posts[i].id = id].author

RowOf(id) == posts[CHOOSE i \in DOMAIN posts : posts[i].id = id]

\* PostRepository::create: a fresh serial id; created_at = NOW() puts the
\* row first in ORDER BY created_at DESC.
RepoCreate(author, title, content) ==
    <<[id |-> next_id, author |-> author, title |-> title, content |-> content,
       created_at |-> now, updated_at |-> now]>> \o posts

\* A bound value that replaces the column even when it is NULL.
CoalesceOverwrite(opt, column) == IF opt = None THEN "" ELSE opt[1]

\* COALESCE($1, column).
Coalesce(opt, column) == IF opt = None THEN column ELSE opt[1]

\* PostRepository::update: UPDATE posts SET title = COALESCE($1, title),
\* content = COALESCE($2, content), updated_at = NOW() WHERE id = $3.
RepoUpdate(id, title, content) ==
    [i \in DOMAIN posts |->
        IF posts[i].id = id
        THEN [posts[i] EXCEPT !.title = Coalesce(title, @),
                              !.content = Coalesce(content, @),
                              !.updated_at = now]
        ELSE posts[i]]

\* PostRepository::delete.
RepoDelete(id) == SelectSeq(posts, LAMBDA p : p.id # id)

\* DomainError::to_status_code and error_to_response.
ToStatusCode(err) ==
    CASE err \in {"UserNotFound", "PostNotFound"} -> 404
      [] err = "UserAlreadyExists" -> 409
      [] err \in {"InvalidCredentials", "Unauthorized"} -> 401
      [] err = "Forbidden" -> 403
      [] err = "ValidationError" -> 400
      [] OTHER -> 500

\* map_domain_error.
MapDomainError(err) ==
    CASE err \in {"UserNotFound", "PostNotFound"} -> "NotFound"
      [] err = "UserAlreadyExists" -> "AlreadyExists"
      [] err \in {"InvalidCredentials", "Unauthorized"} -> "Unauthenticated"
      [] err = "Forbidden" -> "PermissionDenied"
      [] err = "ValidationError" -> "InvalidArgument"
      [] OTHER -> "Internal"

\* What the caller gets for a handler outcome ("Ok" or a DomainError),
\* given the status the HTTP handler answers on success.
AnswerOn(tr, op, outcome, okStatus) ==
    IF tr = "Http"
    THEN HttpResult(op, TRUE,
                    IF outcome = "Ok" THEN okStatus ELSE ToStatusCode(outcome),
                    "valid").kind
    ELSE GrpcResult(op, IF outcome = "Ok" THEN "Ok" ELSE MapDomainError(outcome),
                    "valid").kind

\* The same over the transport the facade was built with.
Answer(op, outcome, okStatus) == AnswerOn(transport, op, outcome, okStatus)

\* jwt_middleware / extract_user_id_from_token in front of a handler.
Authenticated(cred, outcome) ==
    IF cred = Anonymous THEN "Unauthorized" ELSE outcome

Exchange(op, cred, id, kind) ==
    [NoExchange EXCEPT !.op = op, !.cred = cred, !.id = id, !.kind = kind,
                       !.session = token]

\* JwtService::verify_token on the attached credential: the user a token
\* was issued to; a request without a token verifies to nobody.
Verify(tok) ==
    CASE tok = "t1" -> "u1"
      [] tok = "t2" -> "u2"
      [] OTHER -> Anonymous

\* str::trim().is_empty() over the strings of the model.
IsBlank(str) == str \in {"", Blank}

\* DateTime<Utc> as the client receives it: to_rfc3339() in post_to_proto,
\* chrono's serde format in the HTTP handlers.
Rfc3339(tr, t) == <<t, IF tr = "Grpc" THEN "+00:00" ELSE "Z">>

\* PostResponse / proto Post as the facade returns it.
PostResponse(tr, row) ==
    [id |-> row.id, title |-> row.title, content |-> row.content,
     author_id |-> row.author,
     created_at |-> Rfc3339(tr, row.created_at),
     updated_at |-> Rfc3339(tr, row.updated_at)]

\* The author_id field of the CreatePostRequest the sub-client sends: the
\* gRPC message carries 0, the HTTP body has no such field.
BodyAuthor(tr) == IF tr = "Grpc" THEN "0" ELSE "absent"

\* The author of a new row taken from the request body.
CreateAuthorFromBody(user_id, body_author) == body_author

\* The author of a new row: the user_id of the verified token; the handlers
\* drop the author_id of the request.
CreateAuthor(user_id, body_author) == user_id

\* BlogService::create_post behind the authentication check.
CreateOutcome(cred, title, content) ==
    Authenticated(cred,
        IF IsBlank(title) \/ IsBlank(content) THEN "ValidationError" ELSE "Ok")

\* create_post by the user the attached token verifies to.
CreatePost(cred, title, content) ==
    /\ next_id <= MaxPosts
    /\ LET outcome == CreateOutcome(cred, title, content)
           rows == RepoCreate(CreateAuthor(cred, BodyAuthor(transport)),
                              title, content)
       IN  /\ exch' = [Exchange("create_post", cred,
                                IF outcome = "Ok" THEN next_id ELSE 0,
                                Answer("create_post", outcome, 201))
                       EXCEPT !.outcome = outcome,
                              !.title = Some(title), !.content = Some(content),
                              !.post = IF outcome = "Ok"
                                       THEN Some(PostResponse(transport, rows[1]))
                                       ELSE None]
           /\ posts' = IF outcome = "Ok" THEN rows ELSE posts
           /\ next_id' = IF outcome = "Ok" THEN next_id + 1 ELSE next_id
           /\ now' = IF outcome = "Ok" THEN now + 1 ELSE now
    /\ UNCHANGED <<transport, recording, facadeVars, sub_token, norm>>

\* BlogService::update_post without the author check.
UpdateOutcomeAnyUser(cred, id) ==
    Authenticated(cred, IF ~Exists(id) THEN "PostNotFound" ELSE "Ok")

\* BlogService::update_post behind the authentication check.
UpdateOutcome(cred, id) ==
    Authenticated(cred,
        IF ~Exists(id) THEN "PostNotFound"
        ELSE IF AuthorOf(id) # cred THEN "Forbidden"
        ELSE "Ok")

\* update_post by the user the attached token verifies to.
UpdatePost(cred, id, title, content) ==
    /\ now <= MaxClock
    /\ LET outcome == UpdateOutcome(cred, id)
           rows == RepoUpdate(id, title, content)
       IN  /\ exch' = [Exchange("update_post", cred, id,
                                Answer("update_post", outcome, 200))
                       EXCEPT !.outcome = outcome, !.absent = ~Exists(id),
                              !.title = title, !.content = content,
                              !.before = IF Exists(id) THEN Some(RowOf(id))
                                                       ELSE None,
                              !.post = IF outcome = "Ok"
                                       THEN Some(PostResponse(transport,
                                                 rows[CHOOSE i \in DOMAIN rows :
                                                          rows[i].id = id]))
                                       ELSE None]
           /\ posts' = IF outcome = "Ok" THEN rows ELSE posts
           /\ now' = IF outcome = "Ok" THEN now + 1 ELSE now
    /\ UNCHANGED <<transport, recording, facadeVars, sub_token, norm, next_id>>

\* BlogService::delete_post behind the authentication check.
DeleteOutcome(cred, id) ==
    Authenticated(cred,
        IF ~Exists(id) THEN "PostNotFound"
        ELSE IF AuthorOf(id) # cred THEN "Forbidden"
        ELSE "Ok")

DeletePost(cred, id) ==
    /\ LET outcome == DeleteOutcome(cred, id)
       IN  /\ exch' = [Exchange("delete_post", cred, id,
                                Answer("delete_post", outcome, 204))
                       EXCEPT !.absent = ~Exists(id), !.outcome = outcome,
                              !.before = IF Exists(id) THEN Some(RowOf(id))
                                                       ELSE None]
           /\ posts' = IF outcome = "Ok" THEN RepoDelete(id) ELSE posts
    /\ UNCHANGED <<transport, recording, facadeVars, sub_token, norm, next_id,
                   now>>

\* get_post: a public route, no credential.
GetPost(id) ==
    /\ exch' = [Exchange("get_post", Anonymous, id,
                         Answer("get_post",
                                IF Exists(id) THEN "Ok" ELSE "PostNotFound", 200))
                EXCEPT !.absent = ~Exists(id),
                       !.outcome = IF Exists(id) THEN "Ok" ELSE "PostNotFound",
                       !.post = IF Exists(id)
                                THEN Some(PostResponse(transport, RowOf(id)))
                                ELSE None]
    /\ UNCHANGED <<transport, recording, facadeVars, sub_token, norm, posts,
                   next_id, now>>

\* list_posts over HTTP: the query goes out as given; the handler defaults
\* absent parameters and BlogService validates them.
HttpList(limit, offset) ==
    LET l == UnwrapOr(limit, ServerDefaultLimit)
        o == UnwrapOr(offset, 0)
        ok == ValidPagination(l, o)
        kind == AnswerOn("Http", "list_posts",
                         IF ok THEN "Ok" ELSE "ValidationError", 200)
    IN  [Exchange("list_posts", Anonymous, 0, kind) EXCEPT
            !.limit = limit, !.offset = offset,
            !.items = IF ok THEN RepoList(l, o) ELSE <<>>,
            !.total = IF ok THEN Len(posts) ELSE 0,
            !.r_limit = IF ok THEN l ELSE 0,
            !.r_offset = IF ok THEN o ELSE 0]

\* list_posts over gRPC: the facade computes page and page_size (dividing
\* by zero panics), the server handler turns them back into limit and
\* offset, and the facade reshapes the answer.
GrpcList(limit, offset) ==
    IF UnwrapOr(limit, DefaultLimit) = 0
    THEN [Exchange("list_posts", Anonymous, 0, "panic") EXCEPT
            !.limit = limit, !.offset = offset]
    ELSE LET page == GrpcPage(limit, offset)
             page_size == GrpcPageSize(limit)
             l == GrpcServerLimit(page_size)
             o == GrpcServerOffset(page, l)
             ok == ValidPagination(l, o)
             kind == AnswerOn("Grpc", "list_posts",
                              IF ok THEN "Ok" ELSE "ValidationError", 200)
         IN  [Exchange("list_posts", Anonymous, 0, kind) EXCEPT
                 !.limit = limit, !.offset = offset,
                 !.page = page, !.page_size = page_size,
                 !.items = IF ok THEN RepoList(l, o) ELSE <<>>,
                 !.total_count = IF ok THEN Len(posts) ELSE 0,
                 !.total = IF ok THEN Len(posts) ELSE 0,
                 !.r_limit = IF ok THEN UnwrapOr(limit, DefaultLimit) ELSE 0,
                 !.r_offset = IF ok THEN UnwrapOr(offset, 0) ELSE 0]

ListPosts(limit, offset) ==
    /\ exch' = IF transport = "Http" THEN HttpList(limit, offset)
                                     ELSE GrpcList(limit, offset)
    /\ UNCHANGED <<transport, recording, facadeVars, sub_token, norm, posts,
                   next_id, now>>

ServiceNext ==
    \/ \E cred \in Users \cup {Anonymous}, title \in {"Hello", Blank} :
          CreatePost(cred, title, "World")
    \/ \E cred \in Users \cup {Anonymous}, id \in Ids : DeletePost(cred, id)
    \/ \E id \in Ids : GetPost(id)
    \/ \E limit \in Limits, offset \in Offsets : ListPosts(limit, offset)

\* Single facade calls against the blog server and its posts table.
ServiceSpec == Init /\ [][ServiceNext]_vars

\* The facade state a complete set_token / clear_token leaves alone.
sessionFixed ==
    <<transport, recording, serviceVars, builtVars, browserVars, tokenQ,
      clientQ, pc, cur, req, bg, nbg, ncalls, obsVars>>

\* BlogClient::set_token run to completion by the only caller: the canonical
\* token, then the token of the active sub-client.
SessionSetToken(t) ==
    /\ token' = t
    /\ sub_token' = t
    /\ UNCHANGED sessionFixed

\* BlogClient::clear_token run to completion: the canonical token only.
SessionClearToken ==
    /\ token' = NoToken
    /\ UNCHANGED <<sub_token, sessionFixed>>

\* One caller using the facade sequentially: the credential of every write
\* is the token its sub-client holds.
EditNext ==
    \/ \E t \in Tokens : SessionSetToken(t)
    \/ SessionClearToken
    \/ \E title \in Titles, content \in Contents :
          CreatePost(Verify(sub_token), title, content) /\ next_id <= MaxEdited
    \/ \E id \in 1 .. MaxEdited, title \in TitleEdits, content \in ContentEdits :
          UpdatePost(Verify(sub_token), id, title, content)
    \/ \E id \in 1 .. MaxEdited : DeletePost(Verify(sub_token), id)

\* A session of one caller against the blog server: tokens set and cleared,
\* posts created, edited, deleted and read.
EditSpec == Init /\ [][EditNext]_vars


\* ----------------------------------------------- properties of the server
ListedOverGrpc == exch.op = "list_posts" /\ transport = "Grpc"

\* The limit and offset of the last list_posts (absent offset: 0).
AskedLimit == exch.limit[1]

AskedOffset == UnwrapOr(exch.offset, 0)

PositiveLimit == exch.limit # None /\ AskedLimit > 0

\* BlogClientError::is_not_found.
is_not_found(kind) == kind = "NotFound"

C12_ZeroOrAbsentLimitDefaults ==
    (exch.op = "list_posts" /\ exch.limit \in {None, Some(0)}) =>
        /\ exch.kind # "panic"
        /\ (transport = "Grpc" /\ AskedOffset >= 0) =>
               /\ exch.page_size = DefaultLimit
               /\ exch.page = (AskedOffset \div DefaultLimit) + 1

\* C13: over gRPC, for limit > 0 and offset >= 0, list_posts reports the
\* requested offset and limit and returns exactly the items at store
\* positions offset .. min(offset + limit, total) - 1.
C13_GrpcPaginationRoundTrip ==
    (ListedOverGrpc /\ PositiveLimit /\ AskedOffset >= 0) =>
        /\ exch.kind = "Ok"
        /\ exch.r_limit = AskedLimit
        /\ exch.r_offset = AskedOffset
        /\ exch.items = RepoList(AskedLimit, AskedOffset)

\* C15: on both transports, get_post of an id that was never created or
\* whose post was deleted returns NotFound, and is_not_found() is true.
C15_AbsentPostIsNotFound ==
    (exch.op = "get_post" /\ exch.absent) => is_not_found(exch.kind)

\* get_post was asked for a post that had been created and deleted.
C15_DeletedPostAsked ==
    /\ exch.op = "get_post"
    /\ exch.absent
    /\ exch.id < next_id
    /\ is_not_found(exch.kind)

Max(a, b) == IF a > b THEN a ELSE b

\* What the caller can see of a list_posts result.
Observable(e) ==
    IF e.kind = "Ok"
    THEN <<"Ok", e.items, e.total, e.r_limit, e.r_offset>>
    ELSE <<"failed", <<>>, 0, 0, 0>>

\* C24: list_posts(limit, offset) with 1 <= limit <= 100 and offset >= 0
\* against a store of N posts returns min(limit, max(0, N - offset)) posts
\* and total = N, on both transports.
C24_ListReturnsWindow ==
    (/\ exch.op = "list_posts"
     /\ exch.limit # None /\ AskedLimit \in 1 .. MaxPageSize
     /\ exch.offset # None /\ AskedOffset >= 0)
        => /\ exch.kind = "Ok"
           /\ Len(exch.items) = Min(AskedLimit, Max(0, Len(posts) - AskedOffset))
           /\ exch.total = Len(posts)

\* C28: for the same store and the same (limit, offset), whatever their
\* values, list_posts over HTTP and list_posts over gRPC return the same
\* posts, total, limit and offset, or fail both.
C28_ListSameOnBothTransports ==
    exch.op = "list_posts"
        => Observable(HttpList(exch.limit, exch.offset))
               = Observable(GrpcList(exch.limit, exch.offset))

\* ------------------------------------------------ properties of a session
\* The last call was a create_post whose attached token verified to a user.
CreatedAuthenticated == exch.op = "create_post" /\ exch.cred # Anonymous

\* The post returned by the last call is the one the arguments describe.
ReturnsGivenPost ==
    /\ exch.kind = "Ok"
    /\ exch.post # None
    /\ exch.post[1].id > 0
    /\ exch.post[1].title = exch.title[1]
    /\ exch.post[1].content = exch.content[1]
    /\ exch.post[1].author_id = exch.cred

\* The last call was an update_post or delete_post of an existing post.
TouchedExisting(ops) == exch.op \in ops /\ exch.before # None

\* C21: create_post (here with a title and a content the service accepts)
\* issued while Session State holds no token is returned as Unauthorized
\* and creates no post, on both transports.
C21_NoSessionTokenIsUnauthorized ==
    (/\ exch.op = "create_post" /\ exch.session = NoToken
     /\ ~IsBlank(exch.title[1]) /\ ~IsBlank(exch.content[1]))
        => /\ exch.kind = "Unauthorized"
           /\ exch.id = 0
           /\ exch.post = None

\* C22 as stated: every create_post issued while authenticated returns a
\* post with a positive id, the given title and content, and the user of
\* the attached token as author_id.
C22_CreateReturnsPost == CreatedAuthenticated => ReturnsGivenPost

\* C22, amended: the same for a title and a content that are not blank;
\* the author_id carried in the request body is ignored.
C22_CreateReturnsValidPost ==
    (/\ CreatedAuthenticated
     /\ ~IsBlank(exch.title[1])
     /\ ~IsBlank(exch.content[1]))
        => /\ ReturnsGivenPost
           /\ Exists(exch.id)
           /\ PostResponse(transport, RowOf(exch.id)) = exch.post[1]

\* A post was created over gRPC, whose request carries author_id 0.
C22_CreatedOverGrpc ==
    /\ CreatedAuthenticated /\ transport = "Grpc"
    /\ exch.kind = "Ok" /\ exch.title = Some("Hello")
    /\ BodyAuthor(transport) # exch.cred

\* What a field is expected to hold after an update: the value given as
\* present, the previous value when the argument is absent.
Expected(arg, previous) == IF arg = None THEN previous ELSE arg[1]

\* C23: update_post on an existing post by its author changes only the
\* fields given as present: an absent field keeps its value, id, author_id
\* and created_at are unchanged, and updated_at is bumped.
C23_UpdateChangesGivenFields ==
    (TouchedExisting({"update_post"}) /\ exch.cred = exch.before[1].author)
        => /\ exch.kind = "Ok"
           /\ exch.post # None
           /\ exch.post[1].title = Expected(exch.title, exch.before[1].title)
           /\ exch.post[1].content =
                  Expected(exch.content, exch.before[1].content)
           /\ exch.post[1].id = exch.before[1].id
           /\ exch.post[1].author_id = exch.before[1].author
           /\ exch.post[1].created_at =
                  Rfc3339(transport, exch.before[1].created_at)
           /\ exch.post[1].updated_at[1] > exch.before[1].updated_at
           /\ Exists(exch.id)
           /\ PostResponse(transport, RowOf(exch.id)) = exch.post[1]

\* The author gave a new title and no content.
C23_TitleOnlyUpdated ==
    /\ TouchedExisting({"update_post"}) /\ exch.kind = "Ok"
    /\ exch.title = Some("New") /\ exch.content = None
    /\ exch.before[1].title = "Hello" /\ exch.before[1].content = "World"

\* C27: update_post or delete_post carrying the token of a user other than
\* the author is answered Forbidden and leaves the post unchanged and
\* present; a row changes or disappears only in a call of its author; and
\* no step changes the author_id of a post.
C27_OnlyAuthorModifies ==
    /\ []((/\ TouchedExisting({"update_post", "delete_post"})
           /\ exch.cred \notin {Anonymous, exch.before[1].author})
              => /\ exch.outcome = "Forbidden"
                 /\ exch.kind \notin {"Ok", "none"}
                 /\ Exists(exch.id)
                 /\ RowOf(exch.id) = exch.before[1])
    /\ [][\A i \in DOMAIN posts :
             \/ \E j \in DOMAIN posts' : posts'[j] = posts[i]
             \/ /\ exch'.op \in {"update_post", "delete_post"}
                /\ exch'.cred = posts[i].author]_vars
    /\ [][\A i \in DOMAIN posts : \A j \in DOMAIN posts' :
             posts'[j].id = posts[i].id => posts'[j].author = posts[i].author]_vars

\* A user tried to update the post of another user.
C27_ForeignUpdateRefused ==
    /\ TouchedExisting({"update_post"})
    /\ exch.cred \notin {Anonymous, exch.before[1].author}
    /\ exch.outcome = "Forbidden"


\* ============================================== the browser application
\* The yew application of blog-wasm against the HTTP API of the blog
\* server: a message spawns a request, the answer is decoded by
\* ApiClient::request and comes back as a message that App::update handles.

\* The page App asks for: api.list_posts(10, 0).
UiPageLimit == 10

\* The body of an HTTP answer: the 204 of delete_post has none, every other
\* answer is a JSON document.
EmptyBody == ""

JsonBody == "json"

\* serde_json::from_str on a response body: the empty text is not JSON.
ParsesAsJson(text) == text # EmptyBody

\* ApiClient::request after the response was read: a 2xx body is decoded
\* into T, anything else becomes the error message.
ApiRequest(status, text) ==
    IF status \in 200 .. 299
    THEN IF ParsesAsJson(text) THEN "Ok" ELSE "Err"
    ELSE "Err"

\* http_handlers::delete_post: 204 without a body, or error_to_response.
HttpDeleteStatus(outcome) == IF outcome = "Ok" THEN 204 ELSE ToStatusCode(outcome)

HttpDeleteBody(outcome) == IF outcome = "Ok" THEN EmptyBody ELSE JsonBody

\* Some user of the service creates a post.
PostAppears(cred) ==
    /\ cred # Anonymous
    /\ CreatePost(cred, "Hello", "World")

\* Msg::LoadPosts.
UiLoadPosts ==
    /\ ui.flight = NoFlight /\ ui.inbox = <<>>
    /\ ui' = [ui EXCEPT !.loading = TRUE,
                        !.flight = [NoFlight EXCEPT !.op = "list_posts"]]
    /\ UNCHANGED <<transport, token, sub_token, tokenQ, clientQ, pc, cur, req,
                   bg, nbg, ncalls, obsVars, recording, serviceVars, builtVars>>

\* Msg::DeletePost(id) from the Delete button of a post on display, with
\* the token LocalStorage holds at that moment.
UiDeletePost(id, cred) ==
    /\ ui.flight = NoFlight /\ ui.inbox = <<>>
    /\ \E i \in DOMAIN ui.posts : ui.posts[i] = id
    /\ ui' = [ui EXCEPT !.loading = TRUE,
                        !.flight = [op |-> "delete_post", id |-> id,
                                    cred |-> cred]]
    /\ UNCHANGED <<transport, token, sub_token, tokenQ, clientQ, pc, cur, req,
                   bg, nbg, ncalls, obsVars, recording, serviceVars, builtVars>>

Msg(name, id, listed, total) ==
    [msg |-> name, id |-> id, posts |-> listed, total |-> total]

\* The spawned task: the server handles the request, ApiClient decodes the
\* answer, and the outcome is sent to the component as a message.
UiAnswer ==
    /\ ui.flight # NoFlight
    /\ IF ui.flight.op = "list_posts"
       THEN /\ ui' = [ui EXCEPT
                         !.flight = NoFlight,
                         !.inbox = <<Msg("PostsLoaded", 0,
                                         RepoList(UiPageLimit, 0), Len(posts))>>]
            /\ posts' = posts
       ELSE LET id == ui.flight.id
                outcome == DeleteOutcome(ui.flight.cred, id)
                status == HttpDeleteStatus(outcome)
                result == ApiRequest(status, HttpDeleteBody(outcome))
            IN  /\ posts' = IF outcome = "Ok" THEN RepoDelete(id) ELSE posts
                /\ ui' = [ui EXCEPT
                             !.flight = NoFlight,
                             !.inbox = <<Msg(IF result = "Ok" THEN "PostDeleted"
                                                             ELSE "Error",
                                             id, <<>>, 0)>>,
                             !.last = [id |-> id, status |-> status,
                                       result |-> result, handled |-> FALSE,
                                       total |-> ui.posts_total]]
    /\ UNCHANGED <<transport, token, sub_token, tokenQ, clientQ, pc, cur, req,
                   bg, nbg, ncalls, obsVars, recording, next_id, now, exch,
                   norm, builtVars>>

\* App::update on the message the task sent.
UiUpdate ==
    /\ ui.inbox # <<>>
    /\ LET m == Head(ui.inbox)
           handled == [ui.last EXCEPT !.handled = ui.last.id # 0]
       IN  ui' = CASE m.msg = "PostsLoaded" ->
                        [ui EXCEPT !.posts = m.posts, !.posts_total = m.total,
                                   !.loading = FALSE, !.inbox = <<>>]
                   [] m.msg = "PostDeleted" ->
                        [ui EXCEPT !.posts = SelectSeq(@, LAMBDA p : p # m.id),
                                   !.posts_total = @ - 1,
                                   !.loading = FALSE, !.inbox = <<>>,
                                   !.last = handled]
                   [] OTHER ->
                        [ui EXCEPT !.error = <<"error">>, !.loading = FALSE,
                                   !.inbox = <<>>, !.last = handled]
    /\ UNCHANGED <<transport, token, sub_token, tokenQ, clientQ, pc, cur, req,
                   bg, nbg, ncalls, obsVars, recording, serviceVars, builtVars>>

UiNext ==
    \/ \E cred \in Users : PostAppears(cred)
    \/ UiLoadPosts
    \/ \E id \in Ids, cred \in Users \cup {Anonymous} : UiDeletePost(id, cred)
    \/ UiAnswer
    \/ UiUpdate

\* The browser application and other users against the blog server.
UiSpec == Init /\ [][UiNext]_vars

\* C30: delete_post of the browser API client returns Ok whenever the
\* server answers 204 No Content; the UI then removes that post from its
\* list and decrements posts_total by one; an Error message is produced
\* only when the server rejected the delete.
C30_DeleteOkOnNoContent ==
    /\ ui.last.status = 204 => ui.last.result = "Ok"
    /\ (ui.last.status = 204 /\ ui.last.handled)
           => /\ \A i \in DOMAIN ui.posts : ui.posts[i] # ui.last.id
              /\ ui.posts_total = ui.last.total - 1
    /\ ui.last.result = "Err" => ui.last.status # 204


====
